---- MODULE Spec2Model ----
(***************************************************************************)
(* Model of the AutoDJ relay engine of src/index.js (the "full merged"     *)
(* revision, lines 149-723): the persistent ffmpeg supervisor, the FIFO    *)
(* writer, the content cache, the queue resolver and playback sequencer,   *)
(* the metadata and listener synchronizer, the status server, the stats    *)
(* parser and the derivation of cache paths.  The shutdown is modelled     *)
(* from the revision that has signal handlers (lines 725-1225).            *)
(*                                                                         *)
(* Node runs one callback at a time, so every action below is one          *)
(* synchronous run of JavaScript between two awaits/events.  Everything    *)
(* the environment decides (when a child process really exits, whether     *)
(* mkfifo works, whether a read of a file fails) is a nondeterministic     *)
(* choice.  A SIGTERM is only a request: the child exits when it exits.    *)
(* The 'exit' event of a child that has exited is delivered before any     *)
(* timer that is still running expires.                                    *)
(***************************************************************************)
EXTENDS Naturals, Sequences, FiniteSets

\* ---- bounds of the model ------------------------------------------------
MaxFaults == 2      \* faults the environment injects: spontaneous encoder
                    \* exits and read-stream errors
MaxCalls  == 2      \* calls of writeMp3ToFifo made by the playback loop
FileLen   == 2      \* chunks of one artifact
MaxRefs   == 3      \* track references the sources can name
QueueLen  == 2      \* items of one rotation
MaxSources == 1     \* configured source entries
MaxTroubles == 1    \* failures the environment injects into the sequencer:
                    \* failed fetches, failed or stuck writes, unreadable sources
IdxLaps   == 1      \* laps of the station-id list before stationIdIdx is folded
MaxClock  == 2      \* readings Date.now() goes through
MaxReqs   == 1      \* metadata requests in flight at a time
MaxCount  == 1      \* the largest listener count of a stats document
MaxDocLen == 2      \* elements of a stats document
MaxTitleLen == 2    \* characters of a probed title (every title that short)

\* ---- program constants --------------------------------------------------
MaxRetries == 3     \* writeMp3ToFifo(filePath, maxRetries = 3)

NoProc == 0         \* ffmpegProc = null

NoTime == 0         \* nowPlayingUpdated = null

VARIABLES
    \* Relay Process Supervisor
    alive,            \* pids spawned and not yet exited
    dead,             \* pids that exited, 'exit' event not yet delivered
    killed,           \* pids that were sent SIGTERM and did not exit yet
    faults,           \* faults injected so far
    ffmpegProc,       \* global ffmpegProc: NoProc or a pid
    fifoWriteStream,  \* global fifoWriteStream: TRUE = an open handle
    fifoExists,       \* fs.existsSync(FIFO_PATH)
    timers,           \* pending setTimeout(startPersistentFfmpeg, 2000)
    \* Pipe Writer (the one in-flight writeMp3ToFifo call)
    silenceExists,    \* fs.existsSync(SILENCE_MP3)
    wpc,              \* position of the call
    attempt,          \* loop variable of the retry loop
    rsOff,            \* chunks the current read stream has delivered
    alog,             \* what the current attempt wrote: 0 = silence, k = chunk k
    prevOff,          \* furthest artifact offset an earlier failed attempt reached
    result,           \* how the last call ended
    calls,            \* calls made so far
    \* Content Cache and the playback loop that calls it
    cache,            \* CACHE_DIR: canonical path -> "absent", "partial", "whole"
    flights,          \* the playUrlSmart calls that have not settled
    queue,            \* the queue of the current rotation
    qi,               \* index of the next item of the for loop
    lastPath,         \* per reference: the path its last successful call returned
    lastRet,          \* the last return of ensureCachedMp3ForUrl
    \* Queue Resolver and Playback Sequencer (mainLoop, playUrlSmart)
    sources,          \* the configured entries: YOUTUBE_PLAYLIST and SOURCES_FILE
    plUrls,           \* per entry: what fetchPlaylistUrls gave in the last resolve
    playQueue,        \* mainLoop's queue, expanded and shuffled
    item,             \* the for loop's i, counted from 1
    phase,            \* where mainLoop stands
    stationIdIdx,     \* global stationIdIdx
    lastId,           \* the file the last nextStationId() returned
    idExists,         \* per station-id file: fs.existsSync
    nowPlaying,       \* global nowPlaying
    cur,              \* the artifact of the writeMp3ToFifo call in progress
    idxAtResolve,     \* stationIdIdx as the rotation started
    fetchRes,         \* this rotation, per item begun: how its fetch ended
                      \* ("none" for a local file, which is not fetched)
    wlog,             \* this rotation: the writeMp3ToFifo calls that settled
    troubles,         \* failures the environment injected so far
    nowPlayingUpdated,\* global nowPlayingUpdated: NoTime or a reading of the clock
    metadataInterval, \* global metadataInterval: TRUE = a handle is stored
    intervals,        \* the setInterval timers that are running
    \* Metadata/Listener Synchronizer
    clock,            \* Date.now()
    metaReqs,         \* metadata requests sent and not yet settled
    pollPc,           \* where updateListenersPeriodically stands
    lastKnownListeners, \* global lastKnownListeners: <<>> = null, <<k>> = k
    pollEnd,          \* how the last tick of the poll ended
    \* Status server
    payload,          \* the last reply to GET /status
    \* fetchIcecastListeners' reading of one stats document
    doc,              \* the document received
    parsed,           \* what the 'end' handler resolved with
    pstage,           \* "got" before the handler ran, "parsed" after
    \* Canonical path derivation
    derived,          \* what ensureCachedMp3ForUrl derived, one record per call
    cacheFiles,       \* names of the files of CACHE_DIR
    \* Shutdown (the revision with signal handlers)
    stopping,         \* global stopping
    exited            \* process.exit() was called: no callback runs any more

supVars == <<alive, dead, killed, faults, ffmpegProc,
             fifoWriteStream, fifoExists, timers>>
wrVars  == <<silenceExists, wpc, attempt, rsOff, alog, prevOff, result, calls>>
cacheVars == <<cache, flights, queue, qi, lastPath, lastRet>>
seqVars == <<sources, plUrls, playQueue, item, phase, stationIdIdx, lastId,
             idExists, nowPlaying, cur, idxAtResolve, fetchRes, wlog,
             troubles, nowPlayingUpdated, metadataInterval, intervals>>
syncVars == <<clock, metaReqs, pollPc, lastKnownListeners, pollEnd>>
statusVars == <<payload>>
parseVars == <<doc, parsed, pstage>>
pathVars == <<derived, cacheFiles>>
stopVars == <<stopping, exited>>
\* What no step of the relay, the cache or the sequencer touches.
otherVars == <<syncVars, statusVars, parseVars, pathVars, stopVars>>
vars    == <<supVars, wrVars, cacheVars, seqVars, otherVars>>

Piping == {"pipeSil", "pipeFile"}
InGap  == {"gapSil", "gapFile"}

\* ---- Relay Process Supervisor -------------------------------------------

\* The supervisor globals as one value, so that a handler can be composed
\* of the calls it makes.
Sup == [proc |-> ffmpegProc, alive |-> alive, dead |-> dead,
        fifo |-> fifoExists, stream |-> fifoWriteStream, killed |-> killed,
        faults |-> faults]

SetSup(s) ==
    /\ ffmpegProc' = s.proc
    /\ alive' = s.alive
    /\ dead' = s.dead
    /\ fifoExists' = s.fifo
    /\ fifoWriteStream' = s.stream
    /\ killed' = s.killed
    /\ faults' = s.faults

\* The pid of the next child: the least one no existing process has.
FreshPid(s) ==
    CHOOSE p \in 1..(Cardinality(s.alive \cup s.dead) + 1) :
        /\ p \notin s.alive \cup s.dead
        /\ \A q \in 1..(p - 1) : q \in s.alive \cup s.dead

\* ensureFifoExistsSync(): TRUE iff the FIFO exists afterwards; mk is
\* whether mkfifo works this time.
ensureFifoExistsSync(fifo, mk) == fifo \/ mk

\* if (ffmpegProc) return;
HandleSet(proc) == proc # NoProc

\* startPersistentFfmpeg(): no-op when a handle is set or the FIFO cannot
\* be made; otherwise spawn and store the handle.
startPersistentFfmpeg(s, mk) ==
    IF HandleSet(s.proc) THEN s
    ELSE IF ~ensureFifoExistsSync(s.fifo, mk) THEN s
    ELSE [s EXCEPT !.fifo = TRUE, !.proc = FreshPid(s),
                   !.alive = @ \cup {FreshPid(s)}]

\* The encoder process ends (crash, EOF on its input, ingest refusal, or
\* the SIGTERM it was sent finally takes effect).
ProcExit(p) ==
    /\ UNCHANGED <<cacheVars, seqVars, otherVars>>
    /\ p \in alive
    /\ p \in killed \/ faults < MaxFaults
    /\ alive' = alive \ {p}
    /\ dead' = dead \cup {p}
    /\ killed' = killed \ {p}
    /\ faults' = IF p \in killed THEN faults ELSE faults + 1
    /\ UNCHANGED <<ffmpegProc, fifoWriteStream, fifoExists,
                   timers, wrVars>>

\* Whether the exit handler of process p clears the globals when the
\* handle holds proc: it does, whatever the handle holds.
ExitClears(p, proc) == TRUE

\* Variant: an exit handler that schedules no restart.
ExitSchedulesNever(n) == n

\* setTimeout(() => startPersistentFfmpeg(), 2000) of the exit handler.
ExitSchedules(n) == n + 1

\* ffmpegProc.on('exit', ...) of process p.
OnExit(p) ==
    /\ UNCHANGED <<cacheVars, seqVars, otherVars>>
    /\ p \in dead
    /\ dead' = dead \ {p}
    /\ IF ExitClears(p, ffmpegProc)
       THEN /\ ffmpegProc' = NoProc
            /\ fifoWriteStream' = FALSE
            \* the read stream piped into the destroyed handle is unpiped
            \* and paused: its 'end' never comes
            /\ wpc' = IF wpc \in Piping /\ fifoWriteStream THEN "hung" ELSE wpc
       ELSE UNCHANGED <<ffmpegProc, fifoWriteStream, wpc>>
    /\ timers' = ExitSchedules(timers)
    /\ UNCHANGED <<alive, killed, faults, fifoExists, silenceExists,
                   attempt, rsOff, alog, prevOff, result, calls>>

\* The 'exit' event of a process that is gone is delivered before a timer
\* that still has time to run: a timer callback finds no exit waiting.
NoExitWaiting == dead = {}

\* The 2000 ms restart timer fires.
RestartTimer ==
    /\ UNCHANGED <<cacheVars, seqVars, otherVars>>
    /\ timers > 0
    /\ NoExitWaiting
    /\ timers' = timers - 1
    /\ \E mk \in BOOLEAN : SetSup(startPersistentFfmpeg(Sup, mk))
    /\ UNCHANGED <<wrVars>>

\* ---- Pipe Writer: writeMp3ToFifo(filePath, maxRetries = 3) ---------------

\* Variant: a loop bound of attempt <= maxRetries.
MoreAttemptsInclusive(a) == a <= MaxRetries

\* for (let attempt = 0; attempt < maxRetries; attempt++)
MoreAttempts(a) == a < MaxRetries

\* Variant: a read stream that resumes where the last attempt stopped.
RsStartResume(prev) == prev

\* fs.createReadStream(p): every read stream starts at the first byte,
\* whatever offset prev an earlier attempt reached.
RsStart(prev) == 0

\* { end: false } of rs.pipe(): whether the end of the read stream ends
\* the write handle as well.
PipeEndsHandle == FALSE

\* Variant: an attempt that skips the silence file.
SilenceFirstNever(sil) == FALSE

\* if (fs.existsSync(SILENCE_MP3)) await pipeFile(SILENCE_MP3)
SilenceFirst(sil) == sil

\* ffmpegProc.kill('SIGTERM'): the signal is sent, nothing waits for the
\* process to go; a process that is gone already gets none.
kill(s) ==
    IF s.proc \notin s.alive THEN s
    ELSE [s EXCEPT !.killed = @ \cup {s.proc}]

\* Variant: a catch block that keeps the write handle.
catchBlockKeepsStream(s) ==
    [kill(s) EXCEPT !.proc = NoProc]

\* The catch block up to its await: destroy and drop the write handle,
\* SIGTERM the process the handle names and drop the handle.
catchBlock(s) ==
    [kill(s) EXCEPT !.stream = FALSE, !.proc = NoProc]

\* The loop head and the try block up to the first await, entered with
\* loop variable a and supervisor globals s; sil = the silence file
\* exists, po = the offset earlier attempts of this call reached.
BeginAttempt(s, a, sil, po, mk) ==
    /\ attempt' = a
    /\ prevOff' = po
    /\ IF ~MoreAttempts(a)
       THEN \* throw new Error('Failed to write file to FIFO after retries')
            /\ SetSup(s)
            /\ wpc' = "idle" /\ result' = "failed"
            /\ UNCHANGED <<rsOff, alog>>
       ELSE LET s1 == IF s.proc = NoProc THEN startPersistentFfmpeg(s, mk) ELSE s
            IN /\ alog' = <<>>
               /\ result' = "none"
               /\ IF ~s1.fifo
                  THEN \* throw new Error('FIFO missing'), caught at once
                       /\ SetSup(catchBlock(s1))
                       /\ wpc' = "backoff"
                       /\ UNCHANGED rsOff
                  ELSE /\ SetSup([s1 EXCEPT !.stream = TRUE])
                       /\ wpc' = IF SilenceFirst(sil) THEN "pipeSil" ELSE "pipeFile"
                       /\ rsOff' = IF SilenceFirst(sil) THEN 0 ELSE RsStart(po)

\* The playback loop calls writeMp3ToFifo: ensureSilenceMp3(200) (gen =
\* ffmpeg managed to generate the file), then the first attempt.
Call ==
    /\ UNCHANGED <<cacheVars, seqVars, otherVars>>
    /\ wpc = "idle"
    /\ calls < MaxCalls
    /\ calls' = calls + 1
    /\ \E gen, mk \in BOOLEAN :
         /\ silenceExists' = (silenceExists \/ gen)
         /\ BeginAttempt(Sup, 0, silenceExists \/ gen, 0, mk)
    /\ UNCHANGED timers

\* The read stream hands its next chunk to the write handle; after the last
\* one it emits 'end', which only arms the 80 ms timer.
ReadChunk ==
    /\ UNCHANGED <<cacheVars, seqVars, otherVars>>
    /\ wpc \in Piping
    /\ IF wpc = "pipeSil"
       THEN /\ alog' = Append(alog, 0)
            /\ wpc' = "gapSil"
            /\ UNCHANGED rsOff
       ELSE /\ rsOff < FileLen
            /\ rsOff' = rsOff + 1
            /\ alog' = Append(alog, rsOff + 1)
            /\ wpc' = IF rsOff + 1 >= FileLen THEN "gapFile" ELSE "pipeFile"
    /\ fifoWriteStream' = (fifoWriteStream /\ ~(PipeEndsHandle /\ wpc' \in InGap))
    /\ UNCHANGED <<alive, dead, killed, faults, ffmpegProc, fifoExists,
                   timers, silenceExists, attempt, prevOff, result, calls>>

\* rs.on('error', reject): the attempt fails and the catch block runs.
ReadError ==
    /\ UNCHANGED <<cacheVars, seqVars, otherVars>>
    /\ wpc \in Piping
    /\ faults < MaxFaults
    /\ SetSup(catchBlock([Sup EXCEPT !.faults = @ + 1]))
    /\ wpc' = "backoff"
    /\ prevOff' = IF wpc = "pipeFile" /\ rsOff > prevOff THEN rsOff ELSE prevOff
    /\ UNCHANGED <<timers, silenceExists, attempt, rsOff, alog,
                   result, calls>>

\* The 80 ms timer after 'end' resolves pipeFile.
GapDone ==
    \/ /\ wpc = "gapSil"
       /\ UNCHANGED <<cacheVars, seqVars, otherVars>>
       /\ NoExitWaiting
       /\ IF fifoWriteStream
          THEN \* pipeFile(filePath)
               /\ wpc' = "pipeFile"
               /\ rsOff' = RsStart(prevOff)
               /\ UNCHANGED <<supVars, silenceExists, attempt, alog, prevOff,
                              result, calls>>
          ELSE \* rs.pipe(null) throws: the promise rejects, the catch block runs
               /\ SetSup(catchBlock(Sup))
               /\ wpc' = "backoff"
               /\ UNCHANGED <<timers, silenceExists, attempt, rsOff,
                              alog, prevOff, result, calls>>
    \/ /\ wpc = "gapFile"
       /\ UNCHANGED <<cacheVars, seqVars, otherVars>>
       /\ NoExitWaiting
       \* return
       /\ wpc' = "idle"
       /\ result' = "ok"
       /\ UNCHANGED <<supVars, silenceExists, attempt, rsOff, alog, prevOff,
                      calls>>

\* The 800 ms wait of the catch block ends: startPersistentFfmpeg(), then
\* attempt++ and the next turn of the loop.
BackoffDone ==
    /\ UNCHANGED <<cacheVars, seqVars, otherVars>>
    /\ wpc = "backoff"
    /\ NoExitWaiting
    /\ \E mk1, mk2 \in BOOLEAN :
         BeginAttempt(startPersistentFfmpeg(Sup, mk1), attempt + 1,
                      silenceExists, prevOff, mk2)
    /\ UNCHANGED <<timers, silenceExists, calls>>

\* fifoWriteStream.on('error', ...): a write fails once no process reads
\* the FIFO any more (EPIPE); the handler destroys and drops the handle.
StreamError ==
    /\ UNCHANGED <<cacheVars, seqVars, otherVars>>
    /\ fifoWriteStream
    /\ alive = {}
    /\ wpc \in Piping \cup InGap
    /\ fifoWriteStream' = FALSE
    /\ wpc' = IF wpc \in Piping THEN "hung" ELSE wpc
    /\ UNCHANGED <<alive, dead, killed, faults, ffmpegProc, fifoExists,
                   timers, silenceExists, attempt, rsOff, alog, prevOff, result, calls>>

\* ---- Content Cache: ensureCachedMp3ForUrl(url) -----------------------------

Refs == 1..MaxRefs
NoPath == 0

\* The canonical path sanitizeFilename(human) + '.mp3' the probed metadata
\* of a reference gives: references 1 and 2 carry titles that clean to the
\* same text, 3 and 4 likewise.
ProbedKey(r) == (r + 1) \div 2

Keys == {ProbedKey(r) : r \in Refs}

\* Variant: a call that does not look for the cached file.
CacheHitNever(c, k) == FALSE

\* if (fs.existsSync(cachePath)) return { cached: true, ... }
CacheHit(c, k) == c[k] # "absent"

\* Variant: a loop that does not await the call.
CanStartNextAlways(fl) == TRUE

\* await playUrlSmart(item): the for loop goes on to the next item only
\* when no call is unsettled.
CanStartNext(fl) == fl = {}

\* The orders a shuffle of q can give.
Shuffles(q) ==
    {s \in [1..Len(q) -> Refs] :
        \E f \in [1..Len(q) -> 1..Len(q)] :
            /\ \A i, j \in 1..Len(q) : f[i] = f[j] => i = j
            /\ \A i \in 1..Len(q) : s[i] = q[f[i]]}

\* The synchronizer as mainLoop's first lines leave it: the poll is under
\* way, no metadata request is.
SyncIdle ==
    /\ clock = 1 /\ metaReqs = 0 /\ pollPc = "request"
    /\ lastKnownListeners = <<>> /\ pollEnd = [kind |-> "none", value |-> <<>>]

\* No status query answered.
StatusIdle ==
    payload = [served |-> FALSE, now_playing |-> "none", listeners |-> <<>>,
               updated |-> NoTime]

\* No stats document read.
ParseIdle == doc = <<>> /\ parsed = <<>> /\ pstage = "got"

\* No reference probed, the cache directory empty.
PathIdle == derived = <<>> /\ cacheFiles = {}

\* No signal received.
StopIdle == stopping = FALSE /\ exited = FALSE

OtherIdle == SyncIdle /\ StatusIdle /\ ParseIdle /\ PathIdle /\ StopIdle

\* The relay after the kick-off: the FIFO made, the encoder running, no
\* write under way.
RelayUp ==
    /\ dead = {} /\ killed = {} /\ faults = 0 /\ timers = 0
    /\ fifoWriteStream = FALSE
    /\ ffmpegProc = 1 /\ alive = {1} /\ fifoExists = TRUE
    /\ wpc = "idle" /\ attempt = 0 /\ rsOff = 0 /\ alog = <<>>
    /\ prevOff = 0 /\ result = "none" /\ calls = 0

\* The sequencer before mainLoop's first rotation.
SeqIdle ==
    /\ sources = <<"A">> /\ plUrls = <<>> /\ playQueue = <<>> /\ item = 1
    /\ phase = "resolving" /\ stationIdIdx = 0 /\ lastId = "none"
    /\ idExists = [f \in {"X", "Y"} |-> TRUE]
    /\ nowPlaying = "none" /\ cur = "none" /\ idxAtResolve = 0
    /\ fetchRes = <<>> /\ wlog = <<>> /\ troubles = 0
    /\ nowPlayingUpdated = NoTime /\ metadataInterval = TRUE /\ intervals = 1

\* No artifact, no call, nothing returned yet; the queue as first loaded.
CacheIdle ==
    /\ cache = [k \in Keys |-> "absent"]
    /\ flights = {}
    /\ queue = [i \in 1..QueueLen |-> 1]
    /\ qi = 1
    /\ lastPath = [r \in Refs |-> NoPath]
    /\ lastRet = [ref |-> 0]

\* mainLoop: loadQueueExpanded() and the shuffle at the head of a rotation.
Rotate ==
    /\ qi > Len(queue)
    /\ CanStartNext(flights)
    /\ queue' \in Shuffles(queue)
    /\ qi' = 1
    /\ UNCHANGED <<cache, flights, lastPath, lastRet, supVars, wrVars, seqVars,
                   otherVars>>

\* The for loop calls playUrlSmart(queue[i]), which calls
\* ensureCachedMp3ForUrl, which starts the metadata probe (yt-dlp -j).
StartItem ==
    /\ qi <= Len(queue)
    /\ CanStartNext(flights)
    /\ flights' = flights \cup
          {[ref |-> queue[qi], pc |-> "probe", probes |-> 1, downloads |-> 0,
            transcodes |-> 0]}
    /\ qi' = qi + 1
    /\ UNCHANGED <<cache, queue, lastPath, lastRet, supVars, wrVars, seqVars,
                   otherVars>>

\* ensureCachedMp3ForUrl returns: f is the call as it ends, path its result.
Return(f, path) ==
    /\ lastRet' = [ref |-> f.ref, path |-> path, prior |-> lastPath[f.ref],
                   probes |-> f.probes, downloads |-> f.downloads,
                   transcodes |-> f.transcodes]
    /\ lastPath' = [lastPath EXCEPT ![f.ref] = path]
    /\ flights' = (flights \ {f}) \cup {[f EXCEPT !.pc = "stream"]}

\* ensureCachedMp3ForUrl throws: playUrlSmart catches, logs and waits 3 s.
Throw(f) ==
    /\ flights' = flights \ {f}
    /\ UNCHANGED <<lastPath, lastRet>>

\* fetchYtMeta settles: on a hit of the canonical path the call returns,
\* otherwise the download (yt-dlp -f bestaudio) starts.
ProbeDone(f) ==
    /\ f \in flights /\ f.pc = "probe"
    /\ \E ok \in BOOLEAN :
         IF ~ok THEN Throw(f) /\ UNCHANGED cache
         ELSE IF CacheHit(cache, ProbedKey(f.ref))
         THEN Return(f, ProbedKey(f.ref)) /\ UNCHANGED cache
         ELSE /\ flights' = (flights \ {f}) \cup
                    {[f EXCEPT !.pc = "download", !.downloads = @ + 1]}
              /\ UNCHANGED <<cache, lastPath, lastRet>>
    /\ UNCHANGED <<queue, qi, supVars, wrVars, seqVars,
                   otherVars>>

\* downloadToTmp settles: on success the transcode (ffmpeg -y ... outFile)
\* starts.
DownloadDone(f) ==
    /\ f \in flights /\ f.pc = "download"
    /\ \E ok \in BOOLEAN :
         IF ~ok THEN Throw(f)
         ELSE /\ flights' = (flights \ {f}) \cup
                    {[f EXCEPT !.pc = "convert", !.transcodes = @ + 1]}
              /\ UNCHANGED <<lastPath, lastRet>>
    /\ UNCHANGED <<cache, queue, qi, supVars, wrVars, seqVars,
                   otherVars>>

\* ffmpeg opens its output: the file is there before it is complete.
ConvertWrites(f) ==
    /\ f \in flights /\ f.pc = "convert"
    /\ cache[ProbedKey(f.ref)] # "partial"
    /\ cache' = [cache EXCEPT ![ProbedKey(f.ref)] = "partial"]
    /\ UNCHANGED <<flights, queue, qi, lastPath, lastRet, supVars, wrVars, seqVars,
                   otherVars>>

\* convertToMp3 settles.
ConvertDone(f) ==
    /\ f \in flights /\ f.pc = "convert"
    /\ \E ok \in BOOLEAN :
         IF ~ok THEN Throw(f) /\ UNCHANGED cache
         ELSE /\ cache' = [cache EXCEPT ![ProbedKey(f.ref)] = "whole"]
              /\ Return(f, ProbedKey(f.ref))
    /\ UNCHANGED <<queue, qi, supVars, wrVars, seqVars,
                   otherVars>>

\* The rest of playUrlSmart (station id, now-playing, track write) ends.
StreamDone(f) ==
    /\ f \in flights /\ f.pc = "stream"
    /\ flights' = flights \ {f}
    /\ UNCHANGED <<cache, queue, qi, lastPath, lastRet, supVars, wrVars, seqVars,
                   otherVars>>

\* The sources name any references, in any order.
CacheInit ==
    /\ dead = {} /\ killed = {} /\ faults = 0 /\ timers = 0
    /\ fifoWriteStream = FALSE
    /\ ffmpegProc = 1 /\ alive = {1} /\ fifoExists = TRUE
    /\ silenceExists = TRUE
    /\ wpc = "idle" /\ attempt = 0 /\ rsOff = 0 /\ alog = <<>>
    /\ prevOff = 0 /\ result = "none" /\ calls = 0
    /\ cache = [k \in Keys |-> "absent"]
    /\ flights = {}
    /\ queue \in [1..QueueLen -> Refs]
    /\ qi = 1
    /\ lastPath = [r \in Refs |-> NoPath]
    /\ lastRet = [ref |-> 0]
    /\ SeqIdle
    /\ OtherIdle

CacheNext ==
    \/ Rotate
    \/ StartItem
    \/ \E f \in flights : ProbeDone(f)
    \/ \E f \in flights : DownloadDone(f)
    \/ \E f \in flights : ConvertWrites(f)
    \/ \E f \in flights : ConvertDone(f)
    \/ \E f \in flights : StreamDone(f)

SpecCache == CacheInit /\ [][CacheNext]_vars

\* ---- Queue Resolver: loadQueueExpanded() ----------------------------------

\* The entries a configuration can hold: two remote references, a local
\* mp3 file and a playlist reference.
Entries == {"A", "B", "L", "P"}

\* /playlist\?list=/.test(item) || /list=PL/.test(item)
IsPlaylist(e) == e = "P"

\* fs.existsSync(item) && item.toLowerCase().endsWith('.mp3')
IsLocalMp3(e) == e = "L"

\* What yt-dlp --flat-playlist lists for the playlist when it succeeds.
PlaylistTracks == <<"A", "B">>

SourceLists == UNION {[1..n -> Entries] : n \in 0..MaxSources}

\* Variant: an empty configuration that is not noticed.
NoSourcesNever(arr) == FALSE

\* if (arr.length === 0) { ...; process.exit(1); }
NoSources(arr) == arr = <<>>

\* The results fetchPlaylistUrls can give for the playlist entries of arr:
\* the listing, or [] when yt-dlp fails or lists nothing.
PlaylistResults(arr) ==
    {u \in [1..Len(arr) -> {<<>>, PlaylistTracks}] :
        \A k \in 1..Len(arr) : ~IsPlaylist(arr[k]) => u[k] = <<>>}

\* Variant: a playlist that lists nothing is dropped.
KeepEntryDrop(e, urls) == urls

\* if (urls.length) expanded.push(...urls); else expanded.push(item);
KeepEntry(e, urls) == IF urls # <<>> THEN urls ELSE <<e>>

\* for (const item of arr) { ... } from entry k on
RECURSIVE expanded(_, _, _)
expanded(arr, urls, k) ==
    IF k > Len(arr) THEN <<>>
    ELSE (IF IsPlaylist(arr[k]) THEN KeepEntry(arr[k], urls[k]) ELSE <<arr[k]>>)
         \o expanded(arr, urls, k + 1)

Swap(q, i, j) == [q EXCEPT ![i] = q[j], ![j] = q[i]]

\* for (let i = queue.length - 1; i > 0; i--) { j = random 0..i; swap }
RECURSIVE shuffle(_, _)
shuffle(q, i) ==
    IF i <= 1 THEN {q}
    ELSE UNION {shuffle(Swap(q, i, j), i - 1) : j \in 1..i}

\* ---- Playback Sequencer: mainLoop() and playUrlSmart() ----------------------

STATION_ID_FILES == <<"X", "Y">>

SILENCE_MP3 == "sil"

\* stationIdIdx is only ever read modulo the number of station-id files:
\* the model folds it after IdxLaps laps of the list.
IdxWrap == Len(STATION_ID_FILES) * IdxLaps

\* Variant: the list is read one place further on.
nextStationIdAhead(idx) == STATION_ID_FILES[((idx + 1) % Len(STATION_ID_FILES)) + 1]

\* STATION_ID_FILES[stationIdIdx % STATION_ID_FILES.length]
nextStationId(idx) == STATION_ID_FILES[(idx % Len(STATION_ID_FILES)) + 1]

\* Variant: an index that stays where it is.
NextIdxStays(idx) == idx

\* stationIdIdx++
NextIdx(idx) == (idx + 1) % IdxWrap

\* path.basename(item, ext) / info.title, through sanitizeForMeta
Title(e) == e

\* Variant: a catch in playUrlSmart that lets the error through.
playUrlSmartRethrows == "errwait"

\* playUrlSmart's catch: log, wait 3 s, return to the for loop.
playUrlSmartCatch == "itemwait"

\* Variant: a boundary that ends the engine.
mainLoopCatchExits == "exit"

\* mainLoop's catch around the rotation: log, wait 5 s, loop again.
mainLoopCatch == "errwait"

\* The sequencer's own state as one record.
Loop == [phase |-> phase, item |-> item, idx |-> stationIdIdx, lastId |-> lastId,
        np |-> nowPlaying, cur |-> cur, fetchRes |-> fetchRes, wlog |-> wlog,
        troubles |-> troubles, sil |-> silenceExists,
        upd |-> nowPlayingUpdated, mi |-> metadataInterval, ivs |-> intervals]

SetLoop(s) ==
    /\ phase' = s.phase /\ item' = s.item /\ stationIdIdx' = s.idx
    /\ lastId' = s.lastId /\ nowPlaying' = s.np /\ cur' = s.cur
    /\ fetchRes' = s.fetchRes /\ wlog' = s.wlog /\ troubles' = s.troubles
    /\ silenceExists' = s.sil
    /\ nowPlayingUpdated' = s.upd /\ metadataInterval' = s.mi
    /\ intervals' = s.ivs

\* Left alone by every step of the sequencer.
seqFrame == <<supVars, cacheVars, wpc, attempt, rsOff, alog, prevOff, result,
              calls, sources, idExists, otherVars>>

\* Variant: the title is left as it was when the track write starts.
TitleForKeeps(old, e) == old

\* nowPlaying = sanitizeForMeta(title) just before the track write
TitleFor(old, e) == Title(e)

\* ensureSilenceMp3(): the file is there afterwards if it was there before
\* or if ffmpeg managed to generate it (gen).
ensureSilenceMp3(sil, gen) == sil \/ gen

\* writeMp3ToFifo(art) up to its first await; ph is what is being written.
startWrite(s, ph, art, gen) ==
    [s EXCEPT !.phase = ph, !.cur = art, !.sil = ensureSilenceMp3(@, gen)]

\* Variant: a start that does not look at the handle.
startMetadataUpdaterAgain(s) == [s EXCEPT !.mi = TRUE, !.ivs = @ + 1]

\* if (metadataInterval) return; metadataInterval = setInterval(...)
startMetadataUpdater(s) ==
    IF s.mi THEN s ELSE [s EXCEPT !.mi = TRUE, !.ivs = @ + 1]

\* nowPlaying = ...; nowPlayingUpdated = Date.now(); then, in playUrlSmart
\* only, startMetadataUpdater(1000); await writeMp3ToFifo(track)
startTrack(s, e, gen) ==
    LET s1 == [s EXCEPT !.np = TitleFor(s.np, e), !.upd = clock]
        s2 == IF IsLocalMp3(e) THEN s1 ELSE startMetadataUpdater(s1)
    IN  startWrite(s2, "track", e, gen)

\* Variant: the station-id file is written without a look at the disk.
idFilePresentAlways(ex, f) == TRUE

\* if (fs.existsSync(idFile))
idFilePresent(ex, f) == ex[f]

\* const idFile = nextStationId(); then the station-id write, or the
\* silence fallback (which playUrlSmart first tries to generate: gen1), or
\* nothing, and in that case the track write at once.
inject(s, e, local, gen1, gen2) ==
    LET f  == nextStationId(s.idx)
        s1 == [s EXCEPT !.idx = NextIdx(s.idx), !.lastId = f]
        s2 == IF local THEN s1
              ELSE [s1 EXCEPT !.sil = ensureSilenceMp3(@, gen1)]
    IN  IF idFilePresent(idExists, f) THEN startWrite(s1, "bumper", f, gen2)
        ELSE IF s2.sil THEN startWrite(s2, "bumper", SILENCE_MP3, gen2)
        ELSE startTrack(s2, e, gen2)

\* const queue = await loadQueueExpanded(); shuffle; i = 0
Resolve ==
    /\ phase = "resolving"
    /\ \/ /\ NoSources(sources)
          /\ phase' = "exit"
          /\ UNCHANGED <<plUrls, playQueue, item, stationIdIdx, lastId,
                         nowPlaying, cur, idxAtResolve, fetchRes, wlog,
                         troubles, silenceExists, nowPlayingUpdated,
                         metadataInterval, intervals>>
       \/ /\ ~NoSources(sources)
          /\ \E urls \in PlaylistResults(sources) :
               /\ plUrls' = urls
               /\ playQueue' \in
                     LET q == expanded(sources, urls, 1) IN shuffle(q, Len(q))
          /\ SetLoop([Loop EXCEPT !.phase = "item", !.item = 1,
                                 !.fetchRes = <<>>, !.wlog = <<>>])
          /\ idxAtResolve' = stationIdIdx
       \/ \* fs.readFileSync(SOURCES_FILE) throws
          /\ ~NoSources(sources)
          /\ troubles < MaxTroubles
          /\ SetLoop([Loop EXCEPT !.phase = mainLoopCatch, !.troubles = @ + 1])
          /\ UNCHANGED <<plUrls, playQueue, idxAtResolve>>
    /\ UNCHANGED seqFrame

\* for (let i = 0; i < queue.length; i++): the local-file branch, or
\* playUrlSmart(item) up to its await of ensureCachedMp3ForUrl
ItemHead ==
    /\ phase = "item"
    /\ IF item > Len(playQueue)
       THEN SetLoop([Loop EXCEPT !.phase = "rotwait"])
       ELSE IF IsLocalMp3(playQueue[item])
       THEN \E gen \in BOOLEAN :
              SetLoop(inject([Loop EXCEPT !.fetchRes = Append(@, "none")],
                             playQueue[item], TRUE, FALSE, gen))
       ELSE SetLoop([Loop EXCEPT !.phase = "fetch"])
    /\ UNCHANGED <<plUrls, playQueue, idxAtResolve>>
    /\ UNCHANGED seqFrame

\* ensureCachedMp3ForUrl settles.
FetchDone ==
    /\ phase = "fetch"
    /\ \/ \E gen1, gen2 \in BOOLEAN :
            SetLoop(inject([Loop EXCEPT !.fetchRes = Append(@, "ok")],
                           playQueue[item], FALSE, gen1, gen2))
       \/ /\ troubles < MaxTroubles
          /\ SetLoop([Loop EXCEPT !.fetchRes = Append(@, "fail"),
                                !.phase = playUrlSmartCatch,
                                !.troubles = @ + 1])
    /\ UNCHANGED <<plUrls, playQueue, idxAtResolve>>
    /\ UNCHANGED seqFrame

\* The writeMp3ToFifo call in progress settles: it returns, or throws
\* after its retries.  A failed station-id write is caught on the spot; any
\* other failure goes to playUrlSmart's catch or, in the local-file branch,
\* to mainLoop's.
WriteDone ==
    /\ phase \in {"bumper", "track"}
    /\ \E ok \in BOOLEAN :
         /\ ok \/ troubles < MaxTroubles
         /\ LET e  == playQueue[item]
                s1 == [Loop EXCEPT !.wlog = Append(@, [art |-> cur, ok |-> ok]),
                                  !.cur = "none",
                                  !.troubles = IF ok THEN @ ELSE @ + 1]
                caught == IF IsLocalMp3(e) THEN mainLoopCatch
                          ELSE playUrlSmartCatch
            IN  IF phase = "bumper"
                THEN IF ok \/ cur # SILENCE_MP3
                     THEN \E gen \in BOOLEAN : SetLoop(startTrack(s1, e, gen))
                     ELSE SetLoop([s1 EXCEPT !.phase = caught])
                ELSE IF ok
                     THEN SetLoop([s1 EXCEPT !.phase = "item", !.item = @ + 1])
                     ELSE SetLoop([s1 EXCEPT !.phase = caught])
    /\ UNCHANGED <<plUrls, playQueue, idxAtResolve>>
    /\ UNCHANGED seqFrame

\* The write handle is destroyed under the read stream that is piped into
\* it (encoder exit, write error): the stream neither ends nor errors, the
\* promise of pipeFile never settles and the call never returns.
WriteStuck ==
    /\ phase \in {"bumper", "track"}
    /\ troubles < MaxTroubles
    /\ SetLoop([Loop EXCEPT !.phase = "hung", !.troubles = @ + 1])
    /\ UNCHANGED <<plUrls, playQueue, idxAtResolve>>
    /\ UNCHANGED seqFrame

\* A yt-dlp or ffmpeg child of ensureCachedMp3ForUrl never exits:
\* runCmdCapture and runCmdDetached settle on the child's 'error' or 'exit'
\* and on nothing else, so the await of playUrlSmart never resumes.
FetchStuck ==
    /\ phase = "fetch"
    /\ troubles < MaxTroubles
    /\ SetLoop([Loop EXCEPT !.phase = "fetchhung", !.troubles = @ + 1])
    /\ UNCHANGED <<plUrls, playQueue, idxAtResolve>>
    /\ UNCHANGED seqFrame

\* The 3 s wait of playUrlSmart's catch ends: next item.
ItemWaitDone ==
    /\ phase = "itemwait"
    /\ SetLoop([Loop EXCEPT !.phase = "item", !.item = @ + 1])
    /\ UNCHANGED <<plUrls, playQueue, idxAtResolve>>
    /\ UNCHANGED seqFrame

\* The 1 s wait after the last item ends: while (true) again.
RotWaitDone ==
    /\ phase = "rotwait"
    /\ SetLoop([Loop EXCEPT !.phase = "resolving"])
    /\ UNCHANGED <<plUrls, playQueue, idxAtResolve>>
    /\ UNCHANGED seqFrame

\* The 5 s wait of mainLoop's catch ends: while (true) again.
ErrWaitDone ==
    /\ phase = "errwait"
    /\ SetLoop([Loop EXCEPT !.phase = "resolving"])
    /\ UNCHANGED <<plUrls, playQueue, idxAtResolve>>
    /\ UNCHANGED seqFrame

\* Any configuration, any of the station-id files and the silence file
\* present or not.
SeqInit ==
    /\ dead = {} /\ killed = {} /\ faults = 0 /\ timers = 0
    /\ fifoWriteStream = FALSE
    /\ ffmpegProc = 1 /\ alive = {1} /\ fifoExists = TRUE
    /\ wpc = "idle" /\ attempt = 0 /\ rsOff = 0 /\ alog = <<>>
    /\ prevOff = 0 /\ result = "none" /\ calls = 0
    /\ CacheIdle
    /\ silenceExists \in BOOLEAN
    /\ sources \in SourceLists
    /\ idExists \in [{"X", "Y"} -> BOOLEAN]
    /\ plUrls = <<>> /\ playQueue = <<>> /\ item = 1
    /\ phase = "resolving" /\ stationIdIdx = 0 /\ lastId = "none"
    /\ nowPlaying = "none" /\ cur = "none" /\ idxAtResolve = 0
    /\ fetchRes = <<>> /\ wlog = <<>> /\ troubles = 0
    /\ nowPlayingUpdated = NoTime /\ metadataInterval = TRUE /\ intervals = 1
    /\ OtherIdle

SeqNext ==
    \/ Resolve
    \/ ItemHead
    \/ FetchDone
    \/ FetchStuck
    \/ WriteDone
    \/ WriteStuck
    \/ ItemWaitDone
    \/ RotWaitDone
    \/ ErrWaitDone

SpecSeq == SeqInit /\ [][SeqNext]_vars

\* A configuration of a local mp3 file and a remote reference, in either
\* order; any of the station-id files and the silence file present or not.
MixedInit ==
    /\ RelayUp
    /\ CacheIdle
    /\ silenceExists \in BOOLEAN
    /\ sources \in {<<"L", "A">>, <<"A", "L">>}
    /\ idExists \in [{"X", "Y"} -> BOOLEAN]
    /\ plUrls = <<>> /\ playQueue = <<>> /\ item = 1
    /\ phase = "resolving" /\ stationIdIdx = 0 /\ lastId = "none"
    /\ nowPlaying = "none" /\ cur = "none" /\ idxAtResolve = 0
    /\ fetchRes = <<>> /\ wlog = <<>> /\ troubles = 0
    /\ nowPlayingUpdated = NoTime /\ metadataInterval = TRUE /\ intervals = 1
    /\ OtherIdle

SpecMixed == MixedInit /\ [][SeqNext]_vars

\* The event loop runs every continuation that is ready: a settled
\* promise resumes its awaiter, a timer that was set fires.
FairSeq ==
    /\ SpecSeq
    /\ WF_vars(Resolve) /\ WF_vars(ItemHead) /\ WF_vars(FetchDone)
    /\ WF_vars(WriteDone) /\ WF_vars(ItemWaitDone) /\ WF_vars(RotWaitDone)
    /\ WF_vars(ErrWaitDone)

\* ---- Listener poll: the 'end' handler of fetchIcecastListeners ----------------

ICECAST_MOUNT == "/live"

\* The mounts the broadcast server can carry.
Mounts == {ICECAST_MOUNT, "/other"}

Counts == 0..MaxCount

\* The elements of a stats document that the two regular expressions can
\* see: a <source mount="m"> ... </source> block with the <listeners>
\* elements inside it, and a <listeners> element outside every block (the
\* server-wide figure).
Elements ==
    {[t |-> "source", mount |-> m, lis |-> l] :
        m \in Mounts, l \in {<<>>} \cup {<<k>> : k \in Counts}}
    \cup {[t |-> "listeners", mount |-> "", lis |-> <<k>>] : k \in Counts}

\* The well-formed stats documents, as the sequence of their elements.
Docs == UNION {[1..n -> Elements] : n \in 0..MaxDocLen}

\* data.match(regex) with regex = <source[^>]*mount="MOUNT"[^>]*>
\* ([\s\S]*?)</source>: the first source block of the mount, 0 for none.
matchSource(d, mount) ==
    LET hits == {i \in 1..Len(d) : d[i].t = "source" /\ d[i].mount = mount}
    IN  IF hits = {} THEN 0
        ELSE CHOOSE i \in hits : \A j \in hits : i <= j

\* text.match(/<listeners>\s*(\d+)\s*<\/listeners>/i) over the <listeners>
\* elements l of the text: the first one's number, or null.
matchListeners(l) == IF l = <<>> THEN <<>> ELSE <<l[1]>>

\* The <listeners> elements of the whole document, in the order of the text.
RECURSIVE allListeners(_, _)
allListeners(d, k) ==
    IF k > Len(d) THEN <<>> ELSE d[k].lis \o allListeners(d, k + 1)

\* res.on('end'): the block of the mount and the first listeners element in
\* it; with no block of the mount, the first listeners element of the
\* document.
parseListeners(d) ==
    LET i == matchSource(d, ICECAST_MOUNT)
    IN  IF i = 0 THEN matchListeners(allListeners(d, 1))
        ELSE matchListeners(d[i].lis)

\* The 'end' event of the stats request: the handler reads the document.
Parse ==
    /\ pstage = "got"
    /\ parsed' = parseListeners(doc)
    /\ pstage' = "parsed"
    /\ UNCHANGED <<doc, supVars, wrVars, cacheVars, seqVars, syncVars,
                   statusVars, pathVars, stopVars>>

\* Any stats document has arrived.
ParseInit ==
    /\ RelayUp /\ silenceExists = TRUE
    /\ CacheIdle /\ SeqIdle /\ SyncIdle /\ StatusIdle /\ PathIdle /\ StopIdle
    /\ doc \in Docs /\ parsed = <<>> /\ pstage = "got"

SpecParse == ParseInit /\ [][Parse]_vars

\* ---- Metadata/Listener Synchronizer ---------------------------------------------

\* The sequencer's variables but phase.
seqRest == <<sources, plUrls, playQueue, item, stationIdIdx, lastId,
             idExists, nowPlaying, cur, idxAtResolve, fetchRes, wlog,
             troubles, nowPlayingUpdated, metadataInterval, intervals>>

\* mainLoop up to its while (true): ensureSilenceMp3(200), the listener
\* poll started and not awaited (it runs up to its first await, the stats
\* request), startPersistentFfmpeg(), startMetadataUpdater(1000).
mainLoopStart ==
    /\ phase = "start"
    /\ \E gen, mk \in BOOLEAN :
         /\ SetLoop(startMetadataUpdater(
                [Loop EXCEPT !.phase = "resolving",
                             !.sil = ensureSilenceMp3(@, gen)]))
         /\ SetSup(startPersistentFfmpeg(Sup, mk))
    /\ pollPc' = "request"
    /\ UNCHANGED <<timers, wpc, attempt, rsOff, alog, prevOff, result, calls,
                   cacheVars, sources, plUrls, playQueue, idExists,
                   idxAtResolve, clock, metaReqs, lastKnownListeners, pollEnd,
                   statusVars, parseVars, pathVars,
                   stopVars>>

\* The setInterval callback: updateIcecastMetadata(nowPlaying ||
\* STATION_NAME) sends the request and returns.
MetaTick ==
    /\ intervals > 0
    /\ phase # "exit"
    /\ metaReqs < MaxReqs
    /\ metaReqs' = metaReqs + 1
    /\ UNCHANGED <<clock, pollPc, lastKnownListeners, pollEnd, supVars, wrVars,
                   cacheVars, seqVars, statusVars, parseVars, pathVars,
                   stopVars>>

\* Variant: no 'error' listener on the request: the event is thrown and
\* ends the process.
reqOnErrorUnhandled(ph) == "exit"

\* req.on('error', () => { }): the engine goes on as it was.
reqOnError(ph) == ph

\* A metadata request settles: the response ends, the request fails, or it
\* times out and is destroyed.  A request that never settles stays.
MetaSettle ==
    /\ metaReqs > 0
    /\ phase # "exit"
    /\ metaReqs' = metaReqs - 1
    /\ \E o \in {"end", "error", "timeout"} :
         phase' = IF o = "error" THEN reqOnError(phase) ELSE phase
    /\ UNCHANGED <<clock, pollPc, lastKnownListeners, pollEnd, supVars, wrVars,
                   cacheVars, seqRest, statusVars, parseVars, pathVars,
                   stopVars>>

\* Variant: a failed tick keeps the count of the tick before.
storeListenersKeep(old, r) == IF r = <<>> THEN old ELSE r

\* lastKnownListeners = await fetchIcecastListeners().catch(() => null)
storeListeners(old, r) == r

\* What fetchIcecastListeners resolves with when the request ends as o,
\* with document d: the parsed count on 'end'; null on 'error' and on
\* 'timeout'.
fetchIcecastListeners(o, d) == IF o = "end" THEN parseListeners(d) ELSE <<>>

\* The documents the stats request of the poll can bring: those of one
\* element at most.
PollDocs == {d \in Docs : Len(d) <= 1}

\* The stats request of the poll settles (with document d when its
\* response ends) and the loop stores the result, then sleeps 10 s.
PollSettle ==
    /\ pollPc = "request"
    /\ phase # "exit"
    /\ \E o \in {"end", "error", "timeout"} :
         \E d \in IF o = "end" THEN PollDocs ELSE {doc} :
            /\ doc' = d
            /\ pollEnd' = [kind |-> o, value |-> fetchIcecastListeners(o, d)]
            /\ lastKnownListeners' =
                  storeListeners(lastKnownListeners, fetchIcecastListeners(o, d))
    /\ pollPc' = "sleep"
    /\ UNCHANGED <<clock, metaReqs, supVars, wrVars, cacheVars, seqVars,
                   statusVars, parsed, pstage, pathVars, stopVars>>

\* The 10 s wait ends: while (true) again, the next stats request.
PollWake ==
    /\ pollPc = "sleep"
    /\ phase # "exit"
    /\ pollPc' = "request"
    /\ UNCHANGED <<clock, metaReqs, lastKnownListeners, pollEnd, supVars, wrVars,
                   cacheVars, seqVars, statusVars, parseVars, pathVars,
                   stopVars>>

\* The engine as mainLoop is called: one remote reference configured, the
\* station-id files and the silence file there, nothing started.
SyncInit ==
    /\ RelayUp /\ silenceExists = TRUE
    /\ CacheIdle
    /\ sources = <<"A">>
    /\ idExists = [f \in {"X", "Y"} |-> TRUE]
    /\ plUrls = <<>> /\ playQueue = <<>> /\ item = 1
    /\ phase = "start" /\ stationIdIdx = 0 /\ lastId = "none"
    /\ nowPlaying = "none" /\ cur = "none" /\ idxAtResolve = 0
    /\ fetchRes = <<>> /\ wlog = <<>> /\ troubles = 0
    /\ nowPlayingUpdated = NoTime /\ metadataInterval = FALSE /\ intervals = 0
    /\ clock = 1 /\ metaReqs = 0 /\ pollPc = "idle"
    /\ lastKnownListeners = <<>> /\ pollEnd = [kind |-> "none", value |-> <<>>]
    /\ StatusIdle /\ ParseIdle /\ PathIdle /\ StopIdle

SyncNext ==
    \/ mainLoopStart
    \/ SeqNext
    \/ MetaTick
    \/ MetaSettle
    \/ PollSettle
    \/ PollWake

SpecSync == SyncInit /\ [][SyncNext]_vars

\* if (metadataInterval) { clearInterval(metadataInterval);
\* metadataInterval = null; }: the timer of the handle is cleared
stopMetadataUpdater(s) ==
    IF s.mi THEN [s EXCEPT !.mi = FALSE, !.ivs = @ - 1] ELSE s

\* stopMetadataUpdater() is called while the engine runs.
StopUpdater ==
    /\ phase \notin {"start", "exit"}
    /\ SetLoop(stopMetadataUpdater(Loop))
    /\ UNCHANGED <<plUrls, playQueue, idxAtResolve>>
    /\ UNCHANGED seqFrame

\* The engine with the metadata updater stopped at any time and started
\* again by the next track.
SpecUpdater == SyncInit /\ [][SyncNext \/ StopUpdater]_vars

\* ---- Shutdown: the revision with SIGINT/SIGTERM handlers -------------------------
\* This revision starts the encoder from writeMp3ToFifo, keeps one restart
\* timer handle (timers is 0 or 1), writes without retries and plays the
\* configured entries as they are. Its steps carry the suffix 3.

\* What no step of this revision touches.
fixed3 == <<cacheVars, statusVars, parseVars, pathVars,
            sources, plUrls, stationIdIdx, lastId, idExists, cur,
            idxAtResolve, fetchRes, wlog, troubles,
            silenceExists, attempt, rsOff, alog, prevOff, result, calls,
            clock, pollEnd>>

\* ffmpegProc.on('exit', ...): ffmpegProc = null; the write stream is
\* destroyed; if (ffmpegRestartTimer) clearTimeout(ffmpegRestartTimer);
\* ffmpegRestartTimer = setTimeout(...)
OnExit3(p) ==
    /\ ~exited
    /\ p \in dead
    /\ dead' = dead \ {p}
    /\ ffmpegProc' = NoProc
    /\ fifoWriteStream' = FALSE
    /\ wpc' = IF wpc \in Piping /\ fifoWriteStream THEN "hung" ELSE wpc
    /\ timers' = 1
    /\ UNCHANGED <<alive, killed, faults, fifoExists, playQueue, item, phase,
                   nowPlaying, nowPlayingUpdated, metadataInterval, intervals,
                   metaReqs, pollPc, lastKnownListeners, stopVars, fixed3>>

\* The restart timer fires: startPersistentFfmpeg(); ffmpegRestartTimer = null
RestartTimer3 ==
    /\ ~exited
    /\ timers = 1
    /\ timers' = 0
    /\ \E mk \in BOOLEAN : SetSup(startPersistentFfmpeg(Sup, mk))
    /\ UNCHANGED <<wpc, playQueue, item, phase,
                   nowPlaying, nowPlayingUpdated, metadataInterval, intervals,
                   metaReqs, pollPc, lastKnownListeners, stopVars, fixed3>>

\* mainLoop: while (!stopping) { const q = loadQueue(); shuffle(q); i = 0
LoopTest3 ==
    /\ ~exited
    /\ phase = "loop"
    /\ IF stopping
       THEN phase' = "stopped" /\ UNCHANGED <<playQueue, item>>
       ELSE /\ playQueue' \in shuffle(sources, Len(sources))
            /\ item' = 1
            /\ phase' = "for"
    /\ UNCHANGED <<supVars, wpc,
                   nowPlaying, nowPlayingUpdated, metadataInterval, intervals,
                   metaReqs, pollPc, lastKnownListeners, stopVars, fixed3>>

\* for (...; i < q.length && !stopping; ...) await playUrl(q[i]): the item's
\* ensureCachedMp3ForUrl is called, or the loop is left for the 1000 ms sleep.
ForTest3 ==
    /\ ~exited
    /\ phase = "for"
    /\ phase' = IF item <= Len(playQueue) /\ ~stopping THEN "fetch" ELSE "sleep"
    /\ UNCHANGED <<supVars, wpc, playQueue, item,
                   nowPlaying, nowPlayingUpdated, metadataInterval, intervals,
                   metaReqs, pollPc, lastKnownListeners, stopVars, fixed3>>

\* ensureCachedMp3ForUrl settles. When it throws, playUrl waits 4000 ms. When
\* it returns, streamCachedMp3ToIcecast sets nowPlaying, calls
\* startMetadataUpdater(), sends the initial metadata update and calls
\* writeMp3ToFifo: the encoder is started when no handle is set, the call is
\* rejected when the FIFO is not there, else the file is piped into the
\* write stream.
FetchDone3 ==
    /\ ~exited
    /\ phase = "fetch"
    /\ \/ /\ phase' = "wait"
          /\ UNCHANGED <<supVars, wpc, nowPlaying, nowPlayingUpdated,
                         metadataInterval, intervals, metaReqs>>
       \/ \E mk \in BOOLEAN :
            LET s == IF HandleSet(ffmpegProc) THEN Sup
                     ELSE startPersistentFfmpeg(Sup, mk)
            IN  /\ nowPlaying' = Title(playQueue[item])
                /\ nowPlayingUpdated' = clock
                /\ metadataInterval' = TRUE
                /\ intervals' = IF metadataInterval THEN intervals
                                ELSE intervals + 1
                /\ metaReqs' = IF metaReqs < MaxReqs THEN metaReqs + 1
                               ELSE metaReqs
                /\ IF s.fifo
                   THEN /\ SetSup([s EXCEPT !.stream = TRUE])
                        /\ wpc' = "pipeFile"
                        /\ phase' = "write"
                   ELSE /\ SetSup(s)
                        /\ wpc' = wpc
                        /\ phase' = "wait"
                /\ UNCHANGED timers
    /\ UNCHANGED <<playQueue, item, pollPc, lastKnownListeners, stopVars,
                   fixed3>>

\* rs 'end' and the 200 ms guard: writeMp3ToFifo resolves and the for loop
\* goes on; or rs 'error': it rejects and streamCachedMp3ToIcecast waits
\* 2000 ms.
WriteDone3 ==
    /\ ~exited
    /\ phase = "write" /\ wpc = "pipeFile"
    /\ wpc' = "idle"
    /\ \/ phase' = "for" /\ item' = item + 1
       \/ phase' = "wait" /\ item' = item
    /\ UNCHANGED <<supVars, playQueue,
                   nowPlaying, nowPlayingUpdated, metadataInterval, intervals,
                   metaReqs, pollPc, lastKnownListeners, stopVars, fixed3>>

\* The wait after an error of playUrl or streamCachedMp3ToIcecast is over.
WaitDone3 ==
    /\ ~exited
    /\ phase = "wait"
    /\ phase' = "for" /\ item' = item + 1
    /\ UNCHANGED <<supVars, wpc, playQueue,
                   nowPlaying, nowPlayingUpdated, metadataInterval, intervals,
                   metaReqs, pollPc, lastKnownListeners, stopVars, fixed3>>

\* The 1000 ms sleep at the end of a rotation is over.
SleepDone3 ==
    /\ ~exited
    /\ phase = "sleep"
    /\ phase' = "loop"
    /\ UNCHANGED <<supVars, wpc, playQueue, item,
                   nowPlaying, nowPlayingUpdated, metadataInterval, intervals,
                   metaReqs, pollPc, lastKnownListeners, stopVars, fixed3>>

\* A tick of the metadata interval: if (nowPlaying) await
\* updateIcecastMetadata(nowPlaying)
MetaTick3 ==
    /\ ~exited
    /\ intervals > 0
    /\ nowPlaying # "none"
    /\ metaReqs < MaxReqs
    /\ metaReqs' = metaReqs + 1
    /\ UNCHANGED <<supVars, wpc, playQueue, item, phase,
                   nowPlaying, nowPlayingUpdated, metadataInterval, intervals,
                   pollPc, lastKnownListeners, stopVars, fixed3>>

\* A metadata request settles.
MetaSettle3 ==
    /\ ~exited
    /\ metaReqs > 0
    /\ metaReqs' = metaReqs - 1
    /\ UNCHANGED <<supVars, wpc, playQueue, item, phase,
                   nowPlaying, nowPlayingUpdated, metadataInterval, intervals,
                   pollPc, lastKnownListeners, stopVars, fixed3>>

\* updateListenersPeriodically: the request of this tick settles
\* (lastKnownListeners = await fetchIcecastListeners(), or null in the catch)
\* and the 10000 ms sleep begins.
PollSettle3 ==
    /\ ~exited
    /\ pollPc = "request"
    /\ lastKnownListeners' \in {<<>>} \cup {<<k>> : k \in Counts}
    /\ pollPc' = "sleep"
    /\ UNCHANGED <<supVars, wpc, playQueue, item, phase,
                   nowPlaying, nowPlayingUpdated, metadataInterval, intervals,
                   metaReqs, stopVars, fixed3>>

\* The sleep is over: while (!stopping) starts the next tick or ends the task.
PollWake3 ==
    /\ ~exited
    /\ pollPc = "sleep"
    /\ pollPc' = IF stopping THEN "done" ELSE "request"
    /\ UNCHANGED <<supVars, wpc, playQueue, item, phase,
                   nowPlaying, nowPlayingUpdated, metadataInterval, intervals,
                   metaReqs, lastKnownListeners, stopVars, fixed3>>

\* Variant: a shutdown that leaves the encoder running.
shutdownSparesChild(proc, al) == {}

\* if (ffmpegProc) { ffmpegProc.kill('SIGTERM'); ... }: the processes the
\* signal is sent to.
shutdownKills(proc, al) == {proc} \cap al

\* Variant: a handler that returns to the event loop.
processStays(e) == e

\* process.exit(0)
processExit(e) == TRUE

\* process.on('SIGINT' / 'SIGTERM'): stopping = true; stopMetadataUpdater();
\* shutdownFifoAndFfmpeg(); process.exit(0)
Signal3 ==
    /\ ~exited
    /\ stopping' = TRUE
    \* stopMetadataUpdater()
    /\ metadataInterval' = FALSE
    /\ intervals' = IF metadataInterval THEN intervals - 1 ELSE intervals
    \* shutdownFifoAndFfmpeg()
    /\ fifoWriteStream' = FALSE
    /\ killed' = killed \cup shutdownKills(ffmpegProc, alive)
    /\ ffmpegProc' = NoProc
    /\ timers' = 0
    /\ exited' = processExit(exited)
    /\ UNCHANGED <<alive, dead, faults, fifoExists, wpc, playQueue, item,
                   phase, nowPlaying, nowPlayingUpdated, metaReqs, pollPc,
                   lastKnownListeners, fixed3>>

\* The engine of this revision as it is kicked off: two entries configured,
\* no encoder yet, the poll and the main loop started.
StopInit ==
    /\ dead = {} /\ killed = {} /\ faults = 0 /\ timers = 0
    /\ fifoWriteStream = FALSE
    /\ ffmpegProc = NoProc /\ alive = {} /\ fifoExists = FALSE
    /\ wpc = "idle" /\ attempt = 0 /\ rsOff = 0 /\ alog = <<>>
    /\ prevOff = 0 /\ result = "none" /\ calls = 0
    /\ silenceExists = TRUE
    /\ CacheIdle
    /\ sources = <<"A", "B">>
    /\ idExists = [f \in {"X", "Y"} |-> TRUE]
    /\ plUrls = <<>> /\ playQueue = <<>> /\ item = 1
    /\ phase = "loop" /\ stationIdIdx = 0 /\ lastId = "none"
    /\ nowPlaying = "none" /\ cur = "none" /\ idxAtResolve = 0
    /\ fetchRes = <<>> /\ wlog = <<>> /\ troubles = 0
    /\ nowPlayingUpdated = NoTime /\ metadataInterval = FALSE /\ intervals = 0
    /\ clock = 1 /\ metaReqs = 0 /\ pollPc = "request"
    /\ lastKnownListeners = <<>> /\ pollEnd = [kind |-> "none", value |-> <<>>]
    /\ StatusIdle /\ ParseIdle /\ PathIdle /\ StopIdle

StopNext ==
    \/ \E p \in alive : ProcExit(p)
    \/ \E p \in dead : OnExit3(p)
    \/ RestartTimer3
    \/ LoopTest3
    \/ ForTest3
    \/ FetchDone3
    \/ WriteDone3
    \/ WaitDone3
    \/ SleepDone3
    \/ MetaTick3
    \/ MetaSettle3
    \/ PollSettle3
    \/ PollWake3
    \/ Signal3

SpecStop == StopInit /\ [][StopNext]_vars

\* ---- Canonical path derivation --------------------------------------------------
\* A string is the sequence of its characters.

\* What a probed title is made of: a letter, white space, a dash, brackets.
TitleChars == {"a", " ", "-", "[", "]"}
\* Every title of up to MaxTitleLen characters, and three longer ones:
\* "a-a", "a - a" and "[a]a".
Titles ==
    UNION {[1..n -> TitleChars] : n \in 0..MaxTitleLen}
    \cup {<<"a", "-", "a">>, <<"a", " ", "-", " ", "a">>, <<"[", "a", "]", "a">>}
\* meta.uploader: missing, or a channel name.
Uploaders == {<<>>, <<"u">>, <<"v", "?">>}
\* meta.id of the first and of the second reference probed.
TrackIds == <<"id1", "id2">>

\* \s
Ws == {" "}
\* [-\u2013\u2014]
Dashes == {"-"}
\* [\/\\|&<>:"*@'?]
Specials == {"/", "\\", "|", "&", "<", ">", ":", "\"", "*", "@", "'", "?"}

RECURSIVE lead(_, _)
\* Length of the longest prefix of s made of characters of cs.
lead(s, cs) == IF s # <<>> /\ s[1] \in cs THEN 1 + lead(Tail(s), cs) ELSE 0

drop(s, n) == SubSeq(s, n + 1, Len(s))

RECURSIVE stripGroup(_, _, _)
\* s.replace(/\[[^\]]*]/g, ''): from the left, an opening character and
\* everything up to the first closing character after it are removed; an
\* opening character with no closing character after it stays.
stripGroup(s, open, close) ==
    IF s = <<>> THEN <<>>
    ELSE IF s[1] = open /\ \E j \in 2..Len(s) : s[j] = close
         THEN LET j == CHOOSE j \in 2..Len(s) :
                          s[j] = close /\ \A i \in 2..(j - 1) : s[i] # close
              IN  stripGroup(drop(s, j), open, close)
         ELSE <<s[1]>> \o stripGroup(Tail(s), open, close)

RECURSIVE spaceDashes(_)
\* s.replace(/\s*[-\u2013\u2014]\s*/g, ' - ')
spaceDashes(s) ==
    IF s = <<>> THEN <<>>
    ELSE LET k == lead(s, Ws)
         IN  IF k < Len(s) /\ s[k + 1] \in Dashes
             THEN <<" ", "-", " ">>
                  \o spaceDashes(drop(s, k + 1 + lead(drop(s, k + 1), Ws)))
             ELSE IF k > 0
                  THEN SubSeq(s, 1, k) \o spaceDashes(drop(s, k))
                  ELSE <<s[1]>> \o spaceDashes(Tail(s))

RECURSIVE replaceRuns(_, _, _, _)
\* s.replace(/[cs]{atLeast,}/g, by)
replaceRuns(s, cs, atLeast, by) ==
    IF s = <<>> THEN <<>>
    ELSE LET k == lead(s, cs)
         IN  IF k >= atLeast
             THEN by \o replaceRuns(drop(s, k), cs, atLeast, by)
             ELSE IF k > 0
                  THEN SubSeq(s, 1, k) \o replaceRuns(drop(s, k), cs, atLeast, by)
                  ELSE <<s[1]>> \o replaceRuns(Tail(s), cs, atLeast, by)

RECURSIVE trimEnd(_)
trimEnd(s) ==
    IF s # <<>> /\ s[Len(s)] \in Ws THEN trimEnd(SubSeq(s, 1, Len(s) - 1)) ELSE s

\* s.trim()
trim(s) == trimEnd(drop(s, lead(s, Ws)))

\* function cleanTitle(raw)
cleanTitle(raw) ==
    IF raw = <<>> THEN <<>>
    ELSE LET s1 == stripGroup(raw, "[", "]")
             s2 == stripGroup(s1, "(", ")")
             s3 == stripGroup(s2, "{", "}")
             s4 == spaceDashes(s3)
             s5 == replaceRuns(s4, Ws, 2, <<" ">>)
         IN  trim(s5)

\* function sanitizeFilename(s)
sanitizeFilename(s) ==
    IF s = <<>> THEN <<"unknown">>
    ELSE LET t == trim(replaceRuns(replaceRuns(s, Specials, 1, <<"-">>),
                                   Ws, 1, <<" ">>))
         IN  SubSeq(t, 1, IF Len(t) < 200 THEN Len(t) ELSE 200)

\* / - /.test(s)
hasSepDash(s) ==
    \E i \in 1..(Len(s) - 2) : s[i] = " " /\ s[i + 1] = "-" /\ s[i + 2] = " "

\* const rawTitle = meta.title || meta.fulltitle || 'unknown'
\* (meta.title stands for the first of title and fulltitle that is set)
rawTitle(meta) == IF meta.title # <<>> THEN meta.title ELSE <<"unknown">>

\* let human = cleaned; if (meta.uploader && !/ - /.test(cleaned))
\*   human = `${meta.uploader} - ${cleaned}`
human(meta) ==
    LET cleaned == cleanTitle(rawTitle(meta))
    IN  IF meta.uploader # <<>> /\ ~hasSepDash(cleaned)
        THEN meta.uploader \o <<" ", "-", " ">> \o cleaned
        ELSE cleaned

\* Variant: the file named after the track id.
cachePathById(meta) == <<meta.id, ".mp3">>

\* const sname = sanitizeFilename(human) + '.mp3';
\* const cachePath = path.join(CACHE_DIR, sname)
cachePath(meta) == sanitizeFilename(human(meta)) \o <<".mp3">>

\* ensureCachedMp3ForUrl(url) for the n-th reference: the probe gives any
\* metadata; a file of the derived name is a cache hit; otherwise the track
\* is downloaded and converted into that file, or one of the two throws.
Probe(n) ==
    /\ Len(derived) = n - 1
    /\ \E title \in Titles, up \in Uploaders :
         LET meta == [title |-> title, uploader |-> up, id |-> TrackIds[n]]
             p == cachePath(meta)
             hit == p \in cacheFiles
         IN  \E ok \in IF hit THEN {TRUE} ELSE BOOLEAN :
                /\ derived' = Append(derived,
                       [cleaned |-> cleanTitle(rawTitle(meta)),
                        changed |-> cleanTitle(rawTitle(meta)) # title,
                        uploader |-> up,
                        path |-> p,
                        cached |-> hit,
                        thrown |-> ~ok])
                /\ cacheFiles' = IF ok THEN cacheFiles \cup {p} ELSE cacheFiles
    /\ UNCHANGED <<supVars, wrVars, cacheVars, seqVars, syncVars, statusVars,
                   parseVars, stopVars>>

PathInit ==
    /\ RelayUp /\ silenceExists = TRUE
    /\ CacheIdle /\ SeqIdle /\ SyncIdle /\ StatusIdle /\ ParseIdle
    /\ PathIdle /\ StopIdle

SpecPath == PathInit /\ [][\E n \in 1..Len(TrackIds) : Probe(n)]_vars

\* ---- Status server: GET /status ---------------------------------------------------

\* const payload = { now_playing: nowPlaying || null, listeners:
\* lastKnownListeners, updated: nowPlayingUpdated || Date.now(), ... }
statusPayload(np, lis, upd, now) ==
    [served |-> TRUE,
     now_playing |-> np,
     listeners |-> lis,
     updated |-> IF upd # NoTime THEN upd ELSE now]

\* The request handler answers a status query.
Status ==
    /\ payload' = statusPayload(nowPlaying, lastKnownListeners,
                                nowPlayingUpdated, clock)
    /\ ~payload.served
    /\ UNCHANGED <<supVars, wrVars, cacheVars, seqVars, syncVars, parseVars,
                   pathVars, stopVars>>

\* A query can come at any time: before the first track (no title, no
\* time of update) or during one (the title and the clock's reading when it
\* was set), before the first poll, after one that failed or after one
\* that gave a count.
StatusInit ==
    /\ RelayUp /\ silenceExists = TRUE
    /\ CacheIdle /\ ParseIdle /\ PathIdle /\ StopIdle
    /\ sources = <<"A">> /\ plUrls = <<>> /\ playQueue = <<>> /\ item = 1
    /\ phase = "resolving" /\ stationIdIdx = 0 /\ lastId = "none"
    /\ idExists = [f \in {"X", "Y"} |-> TRUE]
    /\ cur = "none" /\ idxAtResolve = 0
    /\ fetchRes = <<>> /\ wlog = <<>> /\ troubles = 0
    /\ metadataInterval = TRUE /\ intervals = 1
    /\ clock \in 1..MaxClock
    /\ \/ nowPlaying = "none" /\ nowPlayingUpdated = NoTime
       \/ nowPlaying \in {Title(e) : e \in Entries}
          /\ nowPlayingUpdated \in 1..clock
    /\ metaReqs = 0 /\ pollPc = "sleep"
    /\ pollEnd \in
         {[kind |-> "none", value |-> <<>>]}
         \cup {[kind |-> o, value |-> <<>>] : o \in {"end", "error", "timeout"}}
         \cup {[kind |-> "end", value |-> <<k>>] : k \in Counts}
    /\ lastKnownListeners = pollEnd.value
    /\ StatusIdle

SpecStatus == StatusInit /\ [][Status]_vars

Init ==
    /\ dead = {} /\ killed = {} /\ faults = 0 /\ timers = 0
    /\ fifoWriteStream = FALSE
    \* Kick off (lines 718-719): ensureSilenceMp3(); startPersistentFfmpeg()
    /\ \E mk \in BOOLEAN :
         LET s == startPersistentFfmpeg(
                    [proc |-> NoProc, alive |-> {}, dead |-> {}, fifo |-> FALSE,
                     stream |-> FALSE, killed |-> {}, faults |-> 0], mk)
         IN /\ ffmpegProc = s.proc /\ alive = s.alive /\ fifoExists = s.fifo
    /\ silenceExists \in BOOLEAN
    /\ wpc = "idle" /\ attempt = 0 /\ rsOff = 0 /\ alog = <<>>
    /\ prevOff = 0 /\ result = "none" /\ calls = 0
    /\ CacheIdle
    /\ SeqIdle
    /\ OtherIdle

Next ==
    \/ \E p \in alive : ProcExit(p)
    \/ \E p \in dead : OnExit(p)
    \/ RestartTimer
    \/ Call
    \/ ReadChunk
    \/ ReadError
    \/ GapDone
    \/ BackoffDone
    \/ StreamError

Spec == Init /\ [][Next]_vars

\* The scheduling Node guarantees: a delivered 'exit' event runs its
\* handler, an armed timer fires, an awaited timer resumes the writer.
FairSpec ==
    /\ Spec
    /\ WF_vars(\E p \in dead : OnExit(p))
    /\ WF_vars(RestartTimer)
    /\ WF_vars(BackoffDone)
    /\ WF_vars(GapDone)

\* As FairSpec, and a read stream that is piped into an open handle keeps
\* flowing: its next chunk is read and handed on.
FairWrite ==
    /\ FairSpec
    /\ WF_vars(ReadChunk)

\* ---- Properties -----------------------------------------------------------

\* C1: at most one encoder process is alive in every reachable state.
C1_AtMostOneEncoder == Cardinality(alive) <= 1

\* C2: when the restart timer of an exit fires, exactly one encoder process
\* is alive afterwards (unless a further exit is already waiting for its
\* own handler and backoff).
C2_ExactlyOneAfterBackoff ==
    [][RestartTimer => (Cardinality(alive') = 1 \/ dead' # {})]_vars

\* C3: every exit handler releases the writer handle and arms a restart
\* timer; a firing timer leaves a process handle set; and every exit is
\* eventually followed by a live encoder process.
C3_ExitAlwaysRestarts ==
    /\ [][\A p \in dead : OnExit(p) =>
            (~fifoWriteStream' /\ timers' = timers + 1)]_vars
    /\ [][RestartTimer => ffmpegProc' # NoProc]_vars
    /\ (dead # {}) ~> (alive # {})

\* a restart timer is pending for an exit, no process is alive and none is
\* referenced: the next firing has to spawn
C3_Witness == timers > 0 /\ alive = {} /\ dead = {} /\ ffmpegProc = NoProc

\* C4: the exit handler of a process that has been replaced leaves the
\* handle of the live current process and its writer handle alone.
C4_StaleExitLeavesHandle ==
    [][\A p \in dead :
         (OnExit(p) /\ ffmpegProc # p /\ ffmpegProc \in alive)
            => (ffmpegProc' = ffmpegProc /\ fifoWriteStream' = fifoWriteStream)]_vars

\* C5: whenever the write handle is closed, no encoder is left alive that
\* the engine did not itself terminate: the handle of a live encoder is
\* never closed under it.
C5_NoEofToLiveEncoder ==
    [][(fifoWriteStream /\ ~fifoWriteStream') => (alive' \ killed' = {})]_vars

Artifact(log) == SelectSeq(log, LAMBDA c : c # 0)

\* C7: the artifact chunks every attempt writes are 1, 2, ... from the
\* first chunk, whatever offset an earlier attempt reached.
C7_RetryFromFirstByte ==
    \A i \in 1..Len(Artifact(alog)) : Artifact(alog)[i] = i

\* a retry, after an attempt that failed part-way through the artifact,
\* has written the first chunk again
C7_Witness == attempt > 0 /\ prevOff > 0 /\ Len(Artifact(alog)) > 0

Fetching(k) ==
    {f \in flights : f.pc \in {"download", "convert"} /\ ProbedKey(f.ref) = k}

\* C9 as stated: a call for a reference that an earlier call already
\* resolved returns the same path and invokes neither the fetcher (probe,
\* download) nor the encoder.
C9_SecondCallInvokesNothing ==
    (lastRet.ref # 0 /\ lastRet.prior # NoPath) =>
        /\ lastRet.path = lastRet.prior
        /\ lastRet.probes = 0 /\ lastRet.downloads = 0 /\ lastRet.transcodes = 0

\* C9 as amended: such a call returns the same path with no download and
\* no transcode; the one thing it invokes is the fetcher's metadata probe.
C9_SecondCallOnlyProbes ==
    (lastRet.ref # 0 /\ lastRet.prior # NoPath) =>
        /\ lastRet.path = lastRet.prior
        /\ lastRet.probes = 1 /\ lastRet.downloads = 0 /\ lastRet.transcodes = 0

\* a second call for a reference has returned, and the first one had
\* downloaded and transcoded the artifact
C9_Witness ==
    /\ lastRet.ref # 0 /\ lastRet.prior # NoPath
    /\ cache[lastRet.path] = "whole"

\* C10: for every cache key at most one download/transcode is in flight.
C10_SingleFlightPerKey == \A k \in Keys : Cardinality(Fetching(k)) <= 1

\* a transcode is in flight and the next request of the loop, for the same
\* key, has not been started
C10_Witness ==
    /\ qi <= Len(queue)
    /\ \E f \in flights : f.pc = "convert" /\ ProbedKey(queue[qi]) = ProbedKey(f.ref)

\* C11: a file is at the canonical path only if a transcode of that key
\* completed: whenever no transcode of key k is running, a file at k is a
\* whole artifact, and the path a call returns holds a whole artifact.
C11_CanonicalPathOnlyWhenComplete ==
    /\ \A k \in Keys :
         (cache[k] # "absent" /\ Fetching(k) = {}) => cache[k] = "whole"
    /\ lastRet.ref # 0 => cache[lastRet.path] = "whole"

\* ---- Properties of the sequencer ---------------------------------------------

\* The artifacts of the write calls of this rotation, in order.
RECURSIVE Arts(_)
Arts(log) == IF log = <<>> THEN <<>> ELSE <<Head(log).art>> \o Arts(Tail(log))

\* The track writes of this rotation that succeeded, in order.
StreamedOk == Arts(SelectSeq(wlog, LAMBDA w : w.ok /\ w.art \in Entries))

\* The items of q whose fetch did not fail, from item k on.
RECURSIVE Fetched(_, _, _)
Fetched(q, res, k) ==
    IF k > Len(q) \/ k > Len(res) THEN <<>>
    ELSE (IF res[k] = "fail" THEN <<>> ELSE <<q[k]>>) \o Fetched(q, res, k + 1)

FetchFails == Cardinality({k \in 1..Len(fetchRes) : fetchRes[k] = "fail"})

AllWritesOk == \A k \in 1..Len(wlog) : wlog[k].ok

\* C12: a rotation in which the fetch of exactly one item failed, and no
\* write did, has streamed every other item once, in order (n - 1 track
\* writes that succeeded); the failed fetch only skips its item, and the
\* loop goes from the end of the rotation to resolving.
C12_OneFetchFailureSkipsOneItem ==
    /\ [][(phase' = "rotwait" /\ FetchFails' = 1 /\ AllWritesOk')
            => /\ Len(StreamedOk') = Len(playQueue') - 1
               /\ StreamedOk' = Fetched(playQueue', fetchRes', 1)]_vars
    /\ [][(Len(fetchRes') = Len(fetchRes) + 1 /\ fetchRes'[Len(fetchRes')] = "fail")
            => (phase' = "itemwait" /\ item' = item /\ playQueue' = playQueue)]_vars
    /\ [][(phase = "itemwait" /\ phase' # phase)
            => (phase' = "item" /\ item' = item + 1)]_vars
    /\ [][(phase = "rotwait" /\ phase' # phase) => phase' = "resolving"]_vars

\* a two-item rotation has ended with one failed fetch and one track
\* streamed
C12_Witness ==
    /\ phase = "rotwait" /\ Len(playQueue) = 2
    /\ FetchFails = 1 /\ AllWritesOk /\ Len(StreamedOk) = 1

\* The rotation of the scenario: queue [A, B], fetch(A) failed, fetch(B)
\* succeeded, the station-id list stood at X, no write failed; it has ended.
ScenarioAB ==
    /\ phase = "rotwait"
    /\ playQueue = <<"A", "B">> /\ fetchRes = <<"fail", "ok">>
    /\ idxAtResolve % Len(STATION_ID_FILES) = 0
    /\ AllWritesOk

TrackWriteFails ==
    /\ phase = "track"
    /\ Len(wlog') = Len(wlog) + 1
    /\ ~wlog'[Len(wlog')].ok

\* C14: a track write that fails after its retries only skips its item,
\* remote reference or local file alike: the loop waits and goes on with
\* the next item of the same rotation.
C14_WriteFailureSkipsItem ==
    /\ [][TrackWriteFails
            => (phase' = "itemwait" /\ item' = item /\ playQueue' = playQueue)]_vars
    /\ [][(phase = "itemwait" /\ phase' # phase)
            => (phase' = "item" /\ item' = item + 1)]_vars

\* C15: the engine ends only on the no-sources condition; whatever fails,
\* the engine goes on, and an error that reaches mainLoop's catch is
\* followed, after the wait, by resolving.
C15_BoundaryResumesResolving ==
    /\ [][phase' = "exit" => NoSources(sources)]_vars
    /\ [][troubles' # troubles => phase' # "exit"]_vars
    /\ [][(phase = "errwait" /\ phase' # phase) => phase' = "resolving"]_vars

\* an error of the local-file branch has reached mainLoop's catch
C15_Witness ==
    /\ phase = "errwait" /\ wlog # <<>>
    /\ ~wlog[Len(wlog)].ok /\ IsLocalMp3(wlog[Len(wlog)].art)

\* C16: with sources configured, resolving is reached again and again,
\* whatever fails.
C16_ResolvingInfinitelyOften ==
    ~NoSources(sources) => []<>(phase = "resolving")

\* C17: the engine stops at a resolve exactly when the resolved sequence
\* would be empty, and then it stays stopped.
C17_FatalIffEmpty ==
    /\ [][(phase = "resolving" /\ phase' # phase)
            => (phase' = "exit" <=>
                  \E urls \in PlaylistResults(sources) :
                      expanded(sources, urls, 1) = <<>>)]_vars
    /\ [][phase = "exit" => phase' = "exit"]_vars

\* the engine has stopped on an empty configuration
C17_Witness == phase = "exit" /\ sources = <<>>

\* How often x occurs in the sequence s.
Count(x, s) == Cardinality({k \in 1..Len(s) : s[k] = x})

RECURSIVE Sum(_, _)
Sum(f, n) == IF n = 0 THEN 0 ELSE f[n] + Sum(f, n - 1)

\* What the configured entry k owes the queue in occurrences of x: the
\* tracks of a playlist that listed some, the entry itself otherwise.
Owed(k, x) ==
    IF IsPlaylist(sources[k]) /\ plUrls[k] # <<>>
    THEN Count(x, plUrls[k])
    ELSE IF sources[k] = x THEN 1 ELSE 0

\* C18: a resolve leaves a queue that holds, for every configured entry,
\* the entry itself once, or the tracks of the playlist when its expansion
\* gave some, and nothing else; the queue stays as it is until the next
\* resolve; a failed expansion does not end the resolve.
C18_ResolveKeepsEveryEntry ==
    /\ [][(phase = "resolving" /\ phase' = "item")
            => \A x \in Entries :
                  Count(x, playQueue')
                    = Sum([k \in 1..Len(sources) |-> Owed(k, x)'], Len(sources))]_vars
    /\ [][phase # "resolving"
            => (playQueue' = playQueue /\ plUrls' = plUrls)]_vars
    /\ [][(phase = "resolving" /\ phase' # phase /\ ~NoSources(sources))
            => phase' \in {"item", "errwait"}]_vars

\* a playlist whose expansion failed is in the queue as itself
C18_Witness ==
    /\ sources = <<"P">> /\ plUrls = << <<>> >> /\ playQueue = <<"P">>
    /\ phase = "fetch"

C20_BumperIndexAdvancesByOne ==
    /\ [][stationIdIdx' # stationIdIdx
            => /\ stationIdIdx' = (stationIdIdx + 1) % IdxWrap
               /\ lastId' = STATION_ID_FILES[(stationIdIdx % Len(STATION_ID_FILES)) + 1]
               /\ lastId' # lastId]_vars
    /\ [][(phase \in {"item", "fetch"} /\ phase' \in {"bumper", "track"})
            => stationIdIdx' # stationIdIdx]_vars
    /\ [][(phase \in {"bumper", "track", "itemwait"})
            => (stationIdIdx' = stationIdIdx)]_vars

\* the second station id was chosen after the write of the first had failed
C20_Witness ==
    /\ lastId = "Y" /\ phase = "bumper"
    /\ \E k \in 1..Len(wlog) : wlog[k].art = "X" /\ ~wlog[k].ok

\* The step that leaves an item (or its fetch) for its bumper or track
\* write, with the station-id file that was chosen missing.
BumperMissing ==
    /\ phase \in {"item", "fetch"} /\ phase' \in {"bumper", "track"}
    /\ ~idExists[lastId']

\* The write of the silence in place of a bumper returns.
SilenceWritten ==
    /\ phase = "bumper" /\ cur = SILENCE_MP3
    /\ Len(wlog') = Len(wlog) + 1 /\ wlog'[Len(wlog')].ok

C28_FetchAlwaysSettles ==
    (phase = "fetch") ~> (phase \in {"bumper", "track", "itemwait"})

\* C30: every call of writeMp3ToFifo returns, with success or with the
\* failure after its retries, also when the encoder exits or the pipe
\* breaks while an attempt is piping.
C30_EveryWriteReturns == (wpc # "idle") ~> (wpc = "idle")

\* The source blocks of the configured mount in document d.
MountBlocks(d) ==
    {i \in 1..Len(d) : d[i].t = "source" /\ d[i].mount = ICECAST_MOUNT}

\* C24: a document with a source block of the configured mount whose
\* listeners element reads k parses to k, whatever the other mounts' blocks
\* read; a document with no source block of the configured mount parses to
\* null, whatever listeners elements it holds.
C24_ParsesConfiguredMountOnly ==
    pstage = "parsed" =>
        /\ \A i \in MountBlocks(doc) :
              (MountBlocks(doc) = {i} /\ doc[i].lis # <<>>)
                 => parsed = <<doc[i].lis[1]>>
        /\ MountBlocks(doc) = {} => parsed = <<>>

\* A step of one of the two synchronizer tasks.
SyncStep == MetaTick \/ MetaSettle \/ PollSettle \/ PollWake

\* The states in which mainLoop has a continuation to run.
Running ==
    phase \in {"resolving", "item", "fetch", "bumper", "track", "itemwait",
               "rotwait", "errwait"}

\* C22: no step of the metadata push or of the listener poll, however the
\* request ended, changes the sequencer's state, the encoder handle or the
\* writer handle, and the sequencer's next step is enabled after it if it
\* was before; with requests that never settle the sequencer still has its
\* next step.
C22_SyncNeverHoldsSequencer ==
    /\ [][SyncStep
            => /\ seqVars' = seqVars
               /\ ffmpegProc' = ffmpegProc
               /\ fifoWriteStream' = fifoWriteStream
               /\ (ENABLED SeqNext) => (ENABLED SeqNext)']_vars
    /\ [][Running' => (ENABLED SeqNext)']_vars

\* a track is being written while a metadata request is unanswered and
\* the last stats request has timed out
C22_Witness ==
    /\ phase = "track" /\ metaReqs > 0 /\ pollEnd.kind = "timeout"

\* C23: a tick of the listener poll that ends in a network error, in a
\* timeout or in a document that gives no count leaves lastKnownListeners
\* null, whatever it was; a tick that gives a count leaves that count.
C23_FailedPollStoresNull ==
    [][PollSettle
         => /\ pollEnd'.kind \in {"error", "timeout"}
                 => lastKnownListeners' = <<>>
            /\ (pollEnd'.kind = "end" /\ parseListeners(doc') = <<>>)
                 => lastKnownListeners' = <<>>
            /\ \A k \in Counts :
                  (pollEnd'.kind = "end" /\ parseListeners(doc') = <<k>>)
                     => lastKnownListeners' = <<k>>]_vars

\* a tick has failed after a tick that had stored a count
C23_Witness ==
    /\ pollEnd.kind = "error" /\ lastKnownListeners = <<>>
    /\ pollPc = "sleep" /\ parseListeners(doc) # <<>>

\* C29: the reply to a status query gives the last-known values, and
\* null for every value that is not known: the listener count when the
\* last poll failed, the title and the time of the last update when no track
\* has started.
C29_StatusMarksUnknown ==
    payload.served =>
        /\ payload.listeners = lastKnownListeners
        /\ pollEnd.kind \in {"error", "timeout"} => payload.listeners = <<>>
        /\ nowPlaying = "none"
              => (payload.now_playing = "none" /\ payload.updated = NoTime)
        /\ nowPlaying # "none"
              => (payload.now_playing = nowPlaying
                  /\ payload.updated = nowPlayingUpdated)

C26_NoEncoderAfterShutdown ==
    /\ [](stopping => (alive \subseteq killed /\ timers = 0
                        /\ ffmpegProc = NoProc))
    /\ [][stopping => (alive' \subseteq alive /\ timers' = 0)]_vars

\* Shutdown came during a write and killed the running encoder.
C26_Witness == stopping /\ killed # {} /\ phase = "write"

\* C27: once the signal has set stopping, no item enters the fetch, no
\* rotation is loaded, no metadata request is sent, no metadata interval is
\* started and the listener poll starts no further request.
C27_NoNewWorkAfterShutdown ==
    [][stopping =>
          /\ (phase' = "fetch" => phase = "fetch")
          /\ (phase' = "for" => phase # "loop")
          /\ metaReqs' <= metaReqs
          /\ intervals' <= intervals
          /\ (pollPc' = "request" => pollPc = "request")]_vars

\* Shutdown came with a fetch, a metadata request and a poll request under
\* way.
C27_Witness ==
    stopping /\ phase = "fetch" /\ metaReqs > 0 /\ pollPc = "request"

\* C31: a failed attempt leaves no write handle and no encoder handle; no
\* write handle is opened during the wait that follows; the next attempt,
\* begun after startPersistentFfmpeg() was called, pipes only with a write
\* handle it opened itself and an encoder handle set; and every chunk a retry
\* writes is written with both handles set.
C31_RetryWritesThroughNewHandle ==
    /\ [](wpc = "backoff" => ~fifoWriteStream)
    /\ [][((wpc' = "backoff" /\ wpc # "backoff")
              => (~fifoWriteStream' /\ ffmpegProc' = NoProc))
          /\ ((wpc = "backoff" /\ wpc' \in Piping)
              => (fifoWriteStream' /\ ffmpegProc' # NoProc))
          /\ ((attempt > 0 /\ wpc \in Piping /\ alog' # alog)
              => (fifoWriteStream /\ ffmpegProc # NoProc))]_vars

\* A retry has written a chunk of the artifact.
C31_Witness ==
    /\ attempt > 0 /\ wpc \in Piping \cup InGap
    /\ \E i \in 1..Len(alog) : alog[i] > 0

\* C32: the queue of a rotation holds every reference the resolve returned
\* as often as the resolve returned it; the items are begun one by one in
\* queue order, each once; and a rotation ends only when every item of the
\* queue was begun, whatever fetch or write failed on the way.
C32_EveryItemAttemptedOnce ==
    /\ [](plUrls # <<>> =>
            \A e \in Entries :
                Count(e, playQueue) = Count(e, expanded(sources, plUrls, 1)))
    /\ [][(fetchRes' # fetchRes /\ fetchRes' # <<>>)
              => (Len(fetchRes') = Len(fetchRes) + 1 /\ Len(fetchRes') = item')]_vars
    /\ [][(phase' = "resolving" /\ phase # "resolving")
              => Len(fetchRes) = Len(playQueue)]_vars

\* C33: when the write made in the bumper's place (the station-id file or
\* the silence fallback) fails after its retries, the sequencer goes on to
\* the track of the same item: it sets the title and the time of update and
\* starts the write of the track's artifact.
C33_BumperFailureStillStreams ==
    [][(phase = "bumper" /\ Len(wlog') = Len(wlog) + 1
                         /\ ~wlog'[Len(wlog')].ok)
          => /\ phase' = "track"
             /\ item' = item
             /\ cur' = playQueue[item]
             /\ nowPlaying' = Title(playQueue[item])
             /\ nowPlayingUpdated' = clock]_vars

\* C34: at most one metadata interval runs at any time and the global
\* holds its handle exactly when one runs; a call of startMetadataUpdater
\* with the updater started adds no interval; stopMetadataUpdater leaves
\* none running, and no tick sends a request while the updater is stopped.
C34_OneMetadataUpdater ==
    /\ [](intervals <= 1 /\ (metadataInterval <=> intervals = 1))
    /\ [][metadataInterval => intervals' <= intervals]_vars
    /\ [][(metadataInterval /\ ~metadataInterval') => intervals' = 0]_vars
    /\ [][(~metadataInterval /\ ~metadataInterval') => metaReqs' <= metaReqs]_vars

\* The updater was stopped during a track, with a request of an earlier tick
\* still under way.
C34_Witness ==
    ~metadataInterval /\ intervals = 0 /\ phase = "track" /\ metaReqs > 0

====
